---- MODULE Spec2Model ----
(***************************************************************************)
(* Model of src/app.py: the PDF form inspection / filling service.         *)
(*                                                                         *)
(* Python strings are sequences of one-character strings, so that          *)
(* str.lower(), str.strip() and str.startswith() are computed and not      *)
(* assumed.  An optional value (dict.get that may return None) is a        *)
(* sequence of length 0 or 1.  A PDF document is an object graph: a        *)
(* sequence of nodes (index = object id) and a sequence of pages.          *)
(***************************************************************************)
EXTENDS Integers, Sequences, FiniteSets, TLC

VARIABLES pc, req, res

vars == <<pc, req, res>>

-----------------------------------------------------------------------------
(* Bounds of the model *)

MaxStates == 2      \* longest /_States_ list
MaxKids   == 2      \* most widgets under one field
MaxPages  == 2      \* most pages of a document
MaxStrLen == 2      \* longest generated caller string
MaxOverlays == 2    \* most text-overlay instructions in one request
MaxNodes  == 3      \* most objects of a parent graph walked step by step

-----------------------------------------------------------------------------
(* Python str *)

UpperAlpha == <<"A","B","C","D","E","F","G","H","I","J","K","L","M",
                "N","O","P","Q","R","S","T","U","V","W","X","Y","Z">>
LowerAlpha == <<"a","b","c","d","e","f","g","h","i","j","k","l","m",
                "n","o","p","q","r","s","t","u","v","w","x","y","z">>

LowerChar(c) ==
    IF \E i \in 1..26 : UpperAlpha[i] = c
    THEN LowerAlpha[CHOOSE i \in 1..26 : UpperAlpha[i] = c]
    ELSE c

UpperChar(c) ==
    IF \E i \in 1..26 : LowerAlpha[i] = c
    THEN UpperAlpha[CHOOSE i \in 1..26 : LowerAlpha[i] = c]
    ELSE c

\* str.lower()
Lower(s) == [i \in 1..Len(s) |-> LowerChar(s[i])]

IsSpace(c) == c \in {" ", "\t", "\n", "\r", "\f"}

RECURSIVE LStrip(_)
LStrip(s) == IF s # <<>> /\ IsSpace(Head(s)) THEN LStrip(Tail(s)) ELSE s

RECURSIVE RStrip(_)
RStrip(s) ==
    IF s # <<>> /\ IsSpace(s[Len(s)]) THEN RStrip(SubSeq(s, 1, Len(s) - 1)) ELSE s

\* str.strip()
Strip(s) == RStrip(LStrip(s))

\* s.startswith("/")
StartsWithSlash(s) == s # <<>> /\ s[1] = "/"

\* the idiom  s if s.startswith("/") else "/" + s
EnsureSlash(s) == IF StartsWithSlash(s) THEN s ELSE <<"/">> \o s

\* ".".join(parts)
RECURSIVE JoinDot(_)
JoinDot(parts) ==
    IF parts = <<>> THEN <<>>
    ELSE IF Len(parts) = 1 THEN parts[1]
    ELSE parts[1] \o <<".">> \o JoinDot(Tail(parts))

\* membership in a Python list
InList(x, l) == \E i \in 1..Len(l) : l[i] = x

\* literals of the source
OffName == <<"/","O","f","f">>
YesName == <<"/","Y","e","s">>
OffLow  == <<"/","o","f","f">>
BtnTag  == <<"/","B","t","n">>
TxTag   == <<"/","T","x">>

TrueWords  == { <<"t","r","u","e">>, <<"1">>, <<"y","e","s">>, <<"y">>, <<"o","n">> }
FalseWords == { <<"f","a","l","s","e">>, <<"0">>, <<"n","o">>, <<"n">>, <<"o","f","f">> }

\* str(v) of a JSON value: bool, int, null or string
DigitChar(d) == <<"0","1","2","3","4","5","6","7","8","9">>[d + 1]

RECURSIVE NatStr(_)
NatStr(n) == IF n < 10 THEN <<DigitChar(n)>> ELSE NatStr(n \div 10) \o <<DigitChar(n % 10)>>

PyStr(v) ==
    CASE v.k = "str"  -> v.s
      [] v.k = "int"  -> IF v.n < 0 THEN <<"-">> \o NatStr(-v.n) ELSE NatStr(v.n)
      [] v.k = "null" -> <<"N","o","n","e">>
      [] v.k = "bool" -> IF v.b THEN <<"T","r","u","e">> ELSE <<"F","a","l","s","e">>

-----------------------------------------------------------------------------
(* Object graph.  nodes[i] is the dictionary of object i:                  *)
(*   T      optional local name (/T)                                       *)
(*   Parent 0 or the id of the parent (/Parent)                            *)
(*   FT     optional type tag (/FT)                                        *)
(*   Kids   ids of the kids (/Kids), <<>> when absent                      *)
(*   States the /_States_ list, <<>> when absent                           *)
(*   AP     optional list of the keys of /AP /N, in dictionary order       *)
(*   P      optional page object the widget refers to (/P)                 *)
(*   Rect   optional rectangle (/Rect)                                     *)
(*   V, AS  optional value and appearance-state selector                   *)
(***************************************************************************)

\* field_dict.get("/Kids", []) or [field_dict]
WidgetsOf(nodes, f) == IF nodes[f].Kids # <<>> THEN nodes[f].Kids ELSE <<f>>

\* the loop over ap["/N"].keys() of one widget
RECURSIVE AppendKeys(_, _)
AppendKeys(states, keys) ==
    IF keys = <<>> THEN states
    ELSE LET s == EnsureSlash(Head(keys))
         IN AppendKeys(IF InList(s, states) THEN states ELSE Append(states, s), Tail(keys))

\* the loop over the widgets
RECURSIVE AppendWidgets(_, _, _)
AppendWidgets(nodes, states, ws) ==
    IF ws = <<>> THEN states
    ELSE LET ap == nodes[Head(ws)].AP
         IN AppendWidgets(nodes,
                          IF ap # <<>> THEN AppendKeys(states, ap[1]) ELSE states,
                          Tail(ws))

\* step 1 of _button_states: the declared list, each entry slash-prefixed
DeclaredStates(nodes, f) ==
    [i \in 1..Len(nodes[f].States) |-> EnsureSlash(nodes[f].States[i])]

_button_states(nodes, f) ==
    AppendWidgets(nodes, DeclaredStates(nodes, f), WidgetsOf(nodes, f))

RECURSIVE FirstNotOff(_)
FirstNotOff(states) ==
    IF states = <<>> THEN YesName
    ELSE IF Lower(Head(states)) # OffLow THEN Head(states)
    ELSE FirstNotOff(Tail(states))

OnValueCaseSensitive(nodes, f) ==
    LET RECURSIVE Go(_)
        Go(states) == IF states = <<>> THEN YesName
                      ELSE IF Head(states) # OffName THEN Head(states)
                      ELSE Go(Tail(states))
    IN Go(_button_states(nodes, f))

_on_value(nodes, f) == FirstNotOff(_button_states(nodes, f))

NormalizeNoStrip(v, nodes, f) ==
    IF v.k = "bool" THEN (IF v.b THEN _on_value(nodes, f) ELSE OffName)
    ELSE LET sval == PyStr(v)
             low  == Lower(sval)
         IN IF low \in TrueWords THEN _on_value(nodes, f)
            ELSE IF low \in FalseWords THEN OffName
            ELSE EnsureSlash(sval)

NormalizeNoLower(v, nodes, f) ==
    IF v.k = "bool" THEN (IF v.b THEN _on_value(nodes, f) ELSE OffName)
    ELSE LET sval == Strip(PyStr(v))
         IN IF sval \in TrueWords THEN _on_value(nodes, f)
            ELSE IF sval \in FalseWords THEN OffName
            ELSE EnsureSlash(sval)

_normalize_checkbox_value(v, nodes, f) ==
    IF v.k = "bool" THEN (IF v.b THEN _on_value(nodes, f) ELSE OffName)
    ELSE LET sval == Strip(PyStr(v))
             low  == Lower(sval)
         IN IF low \in TrueWords THEN _on_value(nodes, f)
            ELSE IF low \in FalseWords THEN OffName
            ELSE IF low = <<"o","f","f">> THEN OffName
            ELSE EnsureSlash(sval)

-----------------------------------------------------------------------------
(* Field-tree resolver *)

\* the while loop of _build_full_name: the local names from the node upwards
RECURSIVE NameParts(_, _)
NameParts(nodes, obj) ==
    IF obj = 0 THEN <<>>
    ELSE (IF nodes[obj].T # <<>> /\ nodes[obj].T[1] # <<>> THEN <<nodes[obj].T[1]>> ELSE <<>>)
         \o NameParts(nodes, nodes[obj].Parent)

\* list.reverse()
Reverse(l) == [i \in 1..Len(l) |-> l[Len(l) + 1 - i]]

_build_full_name(nodes, annot) == JoinDot(Reverse(NameParts(nodes, annot)))

\* A page is [box, Annots, content]; a /P entry holds a reference r:
\* it resolves to page r of the document when there is one and to an object
\* that is no page otherwise.  pg_obj == pobj is dictionary equality.
IsPageRef(pages, r) == r \in 1..Len(pages)

\* the inner loop of _pages_of_field: index of the first page equal to pobj, or 0
RECURSIVE FirstEqualPage(_, _, _)
FirstEqualPage(pages, r, i) ==
    IF i > Len(pages) THEN 0
    ELSE IF IsPageRef(pages, r) /\ pages[i] = pages[r] THEN i
    ELSE FirstEqualPage(pages, r, i + 1)

RECURSIVE PagesLoop(_, _, _, _)
PagesLoop(nodes, pages, ws, acc) ==
    IF ws = <<>> THEN acc
    ELSE LET pref == nodes[Head(ws)].P
             pnum == IF pref = <<>> THEN 0 ELSE FirstEqualPage(pages, pref[1], 1)
         IN PagesLoop(nodes, pages, Tail(ws),
                      IF pnum # 0 /\ ~InList(pnum, acc) THEN Append(acc, pnum) ELSE acc)

RECURSIVE PagesLoopNoDedup(_, _, _, _)
PagesLoopNoDedup(nodes, pages, ws, acc) ==
    IF ws = <<>> THEN acc
    ELSE LET pref == nodes[Head(ws)].P
             pnum == IF pref = <<>> THEN 0 ELSE FirstEqualPage(pages, pref[1], 1)
         IN PagesLoopNoDedup(nodes, pages, Tail(ws),
                             IF pnum # 0 THEN Append(acc, pnum) ELSE acc)

PagesOfFieldNoDedup(doc, f) ==
    PagesLoopNoDedup(doc.nodes, doc.pages, WidgetsOf(doc.nodes, f), <<>>)

_pages_of_field(doc, f) ==
    PagesLoop(doc.nodes, doc.pages, WidgetsOf(doc.nodes, f), <<>>)

-----------------------------------------------------------------------------
(* Overlay compositor *)

\* page.merge_page(overlay): the canvas is added to the content of the page
MergePage(page, canvas) == [page EXCEPT !.content = Append(@, canvas)]

\* one checkmark: twice the centre, and ten times the glyph size
Min(a, b) == IF a < b THEN a ELSE b

CheckGlyph(rect, h) ==
    [cx2    |-> rect[1] + rect[3],
     cy2    |-> 2 * h - (rect[2] + rect[4]),
     size10 |-> 7 * Min(rect[3] - rect[1], rect[4] - rect[2])]

CheckCanvas(page, rects) ==
    [kind  |-> "check", w |-> page.box.w, h |-> page.box.h,
     marks |-> [i \in 1..Len(rects) |-> CheckGlyph(rects[i], page.box.h)]]

-----------------------------------------------------------------------------
(* Appearance synchronizer *)

\* the type tag of an annotation: its own /FT, else its parent's
AnnotFT(nodes, a) ==
    IF nodes[a].FT # <<>> THEN nodes[a].FT
    ELSE IF nodes[a].Parent # 0 THEN nodes[nodes[a].Parent].FT
    ELSE <<>>

\* btn_values_by_name.get(full_name): optional
DictGet(d, k) == IF k \in DOMAIN d THEN <<d[k]>> ELSE <<>>

ApplyAnnotAsOnly(st, page_idx, a, btn) ==
    LET ft   == AnnotFT(st.nodes, a)
        sval == DictGet(btn, _build_full_name(st.nodes, a))
    IN IF ft # <<BtnTag>> THEN st
       ELSE IF sval = <<>> \/ sval[1] = <<>> THEN st
       ELSE LET n2 == [st.nodes EXCEPT ![a].AS = sval]
                rect == st.nodes[a].Rect
            IN [nodes   |-> n2,
                checked |-> IF rect # <<>>
                            THEN [st.checked EXCEPT ![page_idx] = Append(@, rect[1])]
                            ELSE st.checked]

\* one annotation of the first loop; st = [nodes, checked]
ApplyAnnot(st, page_idx, a, btn) ==
    LET ft   == AnnotFT(st.nodes, a)
        sval == DictGet(btn, _build_full_name(st.nodes, a))
    IN IF ft # <<BtnTag>> THEN st
       ELSE IF sval = <<>> \/ sval[1] = <<>> THEN st
       ELSE LET n2 == [st.nodes EXCEPT ![a].AS = sval, ![a].V = sval]
                rect == st.nodes[a].Rect
            IN [nodes   |-> n2,
                checked |-> IF Lower(sval[1]) # OffLow /\ rect # <<>>
                            THEN [st.checked EXCEPT ![page_idx] = Append(@, rect[1])]
                            ELSE st.checked]

RECURSIVE ApplyAnnots(_, _, _, _)
ApplyAnnots(st, page_idx, annots, btn) ==
    IF annots = <<>> THEN st
    ELSE ApplyAnnots(ApplyAnnot(st, page_idx, Head(annots), btn), page_idx, Tail(annots), btn)

RECURSIVE ApplyPages(_, _, _, _)
ApplyPages(st, pages, i, btn) ==
    IF i > Len(pages) THEN st
    ELSE ApplyPages(ApplyAnnots(st, i - 1, pages[i].Annots, btn), pages, i + 1, btn)

\* step 1 of _apply_checkbox_appearances
ApplyStep1(doc, btn) ==
    ApplyPages([nodes |-> doc.nodes, checked |-> [i \in 0..(Len(doc.pages) - 1) |-> <<>>]],
               doc.pages, 1, btn)

\* step 2: one checkmark canvas for each page that has checked rectangles
ApplyStep2(pages, checked) ==
    [i \in 1..Len(pages) |->
        IF checked[i - 1] # <<>> THEN MergePage(pages[i], CheckCanvas(pages[i], checked[i - 1]))
        ELSE pages[i]]

\* the document after the call, and the checked_by_page it built
_apply_checkbox_appearances(doc, btn) ==
    LET st == ApplyStep1(doc, btn)
    IN [doc     |-> [nodes |-> st.nodes, pages |-> ApplyStep2(doc.pages, st.checked)],
        checked |-> st.checked]

\* one text instruction on a page of height h: x, ten times the y handed to
\* set_xy (h - y - 0.4 * fontSize), the text, the size and the weight
OvPage(ov)     == IF ov.page = <<>> THEN 1 ELSE ov.page[1]
OvFontSize(ov) == IF ov.fontSize = <<>> THEN 8 ELSE ov.fontSize[1]

TextItem(ov, h) ==
    [x    |-> ov.x,
     y10  |-> 10 * (h - ov.y) - 4 * OvFontSize(ov),
     text |-> ov.text, size |-> OvFontSize(ov), style |-> IF ov.bold THEN "B" ELSE ""]

TextCanvas(page, items) ==
    [kind  |-> "text", w |-> page.box.w, h |-> page.box.h,
     items |-> [i \in 1..Len(items) |-> TextItem(items[i], page.box.h)]]

\* by_page[pg]: the instructions of 0-based page pg, in list order
ByPage(overlays, pg) ==
    LET Sel(ov) == OvPage(ov) - 1 = pg IN SelectSeq(overlays, Sel)

\* the keys of by_page, in insertion order
RECURSIVE OverlayKeys(_, _)
OverlayKeys(overlays, acc) ==
    IF overlays = <<>> THEN acc
    ELSE LET pg == OvPage(Head(overlays)) - 1
         IN OverlayKeys(Tail(overlays), IF InList(pg, acc) THEN acc ELSE Append(acc, pg))

\* writer.pages[page_idx]: a negative index counts from the end
PyIndex(pages, page_idx) == IF page_idx < 0 THEN Len(pages) + page_idx + 1 ELSE page_idx + 1

\* the test  if page_idx < 0 or page_idx >= len(writer.pages): continue
OverlayInRangeUpperOnly(pages, page_idx) == ~(page_idx >= Len(pages))

OverlayInRange(pages, page_idx) == ~(page_idx < 0 \/ page_idx >= Len(pages))

RECURSIVE OverlayLoop(_, _, _)
OverlayLoop(pages, overlays, keys) ==
    IF keys = <<>> THEN pages
    ELSE LET page_idx == Head(keys)
             i == PyIndex(pages, page_idx)
         IN IF ~OverlayInRange(pages, page_idx)
            THEN OverlayLoop(pages, overlays, Tail(keys))
            ELSE OverlayLoop([pages EXCEPT ![i] =
                                 MergePage(@, TextCanvas(@, ByPage(overlays, page_idx)))],
                             overlays, Tail(keys))

_apply_text_overlays(pages, overlays) ==
    OverlayLoop(pages, overlays, OverlayKeys(overlays, <<>>))

HeaderCanvas(page, text) ==
    [kind |-> "header", w |-> page.box.w, h |-> page.box.h, text |-> text]

\* the loop of stamp_header: merge, then writer.add_page(page)
RECURSIVE StampPages(_, _)
StampPages(pages, text) ==
    IF pages = <<>> THEN <<>>
    ELSE <<MergePage(Head(pages), HeaderCanvas(Head(pages), text))>>
         \o StampPages(Tail(pages), text)

-----------------------------------------------------------------------------
(* pypdf calls of the handlers *)

NodeIds(doc) == 1..Len(doc.nodes)

\* reader.get_fields(): qualified name -> field object, for the nodes with /T
FieldNames(doc) ==
    { _build_full_name(doc.nodes, n) : n \in { m \in NodeIds(doc) : doc.nodes[m].T # <<>> } }

FieldOf(doc, name) ==
    CHOOSE n \in NodeIds(doc) : doc.nodes[n].T # <<>> /\ _build_full_name(doc.nodes, n) = name

\* _remove_xfa and set_need_appearances_writer
PrepareWriter(doc) == [doc EXCEPT !.xfa = FALSE, !.needAp = TRUE]

\* writer.update_page_form_field_values(page, mapping, auto_regenerate=False),
\* one annotation: the field is the annotation when it carries /FT and /T, else
\* its parent; /V of the field is set, and for a button the widget's /AS and /V
\* become the value when it is a key of the widget's /AP /N, else /Off
UpdateAnnot(nodes, a, mapping) ==
    LET pa   == IF nodes[a].FT # <<>> /\ nodes[a].T # <<>> THEN a
                ELSE IF nodes[a].Parent # 0 THEN nodes[a].Parent ELSE a
        name == _build_full_name(nodes, pa)
    IN IF name \notin DOMAIN mapping THEN nodes
       ELSE LET val == PyStr(mapping[name])
                n1  == [nodes EXCEPT ![pa].V = <<val>>]
                v   == IF n1[a].AP # <<>> /\ InList(val, n1[a].AP[1]) THEN val ELSE OffName
            IN IF n1[pa].FT = <<BtnTag>>
               THEN [n1 EXCEPT ![a].AS = <<v>>, ![a].V = <<v>>]
               ELSE n1

RECURSIVE UpdateAnnots(_, _, _)
UpdateAnnots(nodes, annots, mapping) ==
    IF annots = <<>> THEN nodes
    ELSE UpdateAnnots(UpdateAnnot(nodes, Head(annots), mapping), Tail(annots), mapping)

RECURSIVE UpdateAllPages(_, _, _)
UpdateAllPages(doc, i, mapping) ==
    IF i > Len(doc.pages) THEN doc
    ELSE UpdateAllPages([doc EXCEPT !.nodes = UpdateAnnots(@, doc.pages[i].Annots, mapping)],
                        i + 1, mapping)

-----------------------------------------------------------------------------
(* Endpoints.  A response is                                               *)
(*   status  the HTTP status                                               *)
(*   parsed  whether PdfReader was run on the upload                       *)
(*   doc     the document written out (status 200), else the empty record  *)
(*   mapping, btn_map, checked   the dictionaries the handler built        *)
(*   items   the descriptors of dump_fields                                *)
(*   value   the result of a helper called on its own                      *)
(***************************************************************************)

PdfType  == "application/pdf"
JsonType == "application/json"

NoDoc  == [nodes |-> <<>>, pages |-> <<>>, xfa |-> FALSE, needAp |-> FALSE]
NoDict == [k \in {} |-> <<>>]

Response(status, parsed) ==
    [status |-> status, parsed |-> parsed, doc |-> NoDoc, mapping |-> NoDict,
     btn_map |-> NoDict, checked |-> <<>>, items |-> NoDict, value |-> <<>>]

\* raise HTTPException(status_code=400) outside any try block
ClientError(parsed) == Response(400, parsed)

\* the except Exception clause of every handler: whatever was raised in the
\* try block, an HTTPException included, leaves as status 500
ExceptClause(exc) == Response(500, TRUE)

\* the loop of fill_form over fields.items(): mapping and btn_map
IsButton(doc, name) == doc.nodes[FieldOf(doc, name)].FT = <<BtnTag>>

FillKeys(doc, form) == { name \in FieldNames(doc) : name \in DOMAIN form }

FillMappingUnfiltered(doc, form) ==
    [name \in DOMAIN form |->
        IF name \in FieldNames(doc) /\ IsButton(doc, name)
        THEN [k |-> "str", s |-> _normalize_checkbox_value(form[name], doc.nodes, FieldOf(doc, name))]
        ELSE form[name]]

FillMapping(doc, form) ==
    [name \in FillKeys(doc, form) |->
        IF IsButton(doc, name)
        THEN [k |-> "str", s |-> _normalize_checkbox_value(form[name], doc.nodes, FieldOf(doc, name))]
        ELSE form[name]]

FillBtnMapRaw(doc, form) ==
    [name \in { n \in FillKeys(doc, form) : IsButton(doc, n) } |-> PyStr(form[name])]

FillBtnMap(doc, form) ==
    [name \in { n \in FillKeys(doc, form) : IsButton(doc, n) } |->
        _normalize_checkbox_value(form[name], doc.nodes, FieldOf(doc, name))]

\* the try block of fill_form once the form data is a dict
FillBody(r) ==
    LET mapping == FillMapping(r.doc, r.form)
        btn_map == FillBtnMap(r.doc, r.form)
        w1 == UpdateAllPages(PrepareWriter(r.doc), 1, mapping)
        ap == _apply_checkbox_appearances(w1, btn_map)
        w2 == IF r.overlays.k = "list" /\ r.overlays.l # <<>>
              THEN [ap.doc EXCEPT !.pages = _apply_text_overlays(@, r.overlays.l)]
              ELSE ap.doc
    IN [Response(200, TRUE) EXCEPT !.doc = w2, !.mapping = mapping,
                                   !.btn_map = btn_map, !.checked = ap.checked]

fill_form(r) ==
    IF r.fileType # PdfType THEN ClientError(FALSE)
    ELSE IF r.dataType # JsonType THEN ClientError(FALSE)
    ELSE IF ~r.pdfOk THEN ExceptClause([type |-> "PdfReadError", status |-> 0])
    ELSE IF r.json = "invalid" THEN ExceptClause([type |-> "JSONDecodeError", status |-> 0])
    ELSE IF r.json # "object" THEN ExceptClause([type |-> "HTTPException", status |-> 400])
    ELSE FillBody(r)

\* the loop of visual_mapper over fields.items()
VisualBtnMap(doc) ==
    [name \in { n \in FieldNames(doc) : IsButton(doc, n) } |->
        _on_value(doc.nodes, FieldOf(doc, name))]

\* name[-35:]
Last35(s) == IF Len(s) <= 35 THEN s ELSE SubSeq(s, Len(s) - 34, Len(s))

VisualMapping(doc) ==
    [name \in FieldNames(doc) |->
        [k |-> "str", s |-> IF IsButton(doc, name) THEN _on_value(doc.nodes, FieldOf(doc, name))
                            ELSE Last35(name)]]

visual_mapper(r) ==
    IF r.fileType # PdfType THEN ClientError(FALSE)
    ELSE IF ~r.pdfOk THEN ExceptClause([type |-> "PdfReadError", status |-> 0])
    ELSE IF FieldNames(r.doc) = {} THEN ExceptClause([type |-> "HTTPException", status |-> 400])
    ELSE LET mapping == VisualMapping(r.doc)
             btn_map == VisualBtnMap(r.doc)
             w1 == UpdateAllPages(PrepareWriter(r.doc), 1, mapping)
             ap == _apply_checkbox_appearances(w1, btn_map)
         IN [Response(200, TRUE) EXCEPT !.doc = ap.doc, !.mapping = mapping,
                                        !.btn_map = btn_map, !.checked = ap.checked]

stamp_header(r) ==
    IF r.fileType # PdfType THEN ClientError(FALSE)
    ELSE IF ~r.pdfOk THEN ExceptClause([type |-> "PdfReadError", status |-> 0])
    ELSE [Response(200, TRUE) EXCEPT !.doc = [r.doc EXCEPT !.pages = StampPages(@, r.text)]]

\* field_type_map.get(ftype, str(ftype))
FieldTypeName(ft) ==
    IF ft = BtnTag THEN <<"B","u","t","t","o","n">>
    ELSE IF ft = TxTag THEN <<"T","e","x","t">>
    ELSE IF ft = <<"/","C","h">> THEN <<"C","h","o","i","c","e">>
    ELSE IF ft = <<"/","S","i","g">> THEN <<"S","i","g","n","a","t","u","r","e">>
    ELSE ft

\* if ftype is None: continue
HasTypeTag(doc, name) == doc.nodes[FieldOf(doc, name)].FT # <<>>

DumpItem(doc, name) ==
    LET f == FieldOf(doc, name)
        isBtn == doc.nodes[f].FT = <<BtnTag>>
    IN [FieldName  |-> name,
        FieldType  |-> FieldTypeName(doc.nodes[f].FT[1]),
        FieldValue |-> doc.nodes[f].V,
        Pages      |-> _pages_of_field(doc, f),
        PossibleValues |-> IF isBtn THEN <<_button_states(doc.nodes, f)>> ELSE <<>>,
        TrueValue      |-> IF isBtn THEN <<_on_value(doc.nodes, f)>> ELSE <<>>]

dump_fields(r) ==
    IF r.fileType # PdfType THEN ClientError(FALSE)
    ELSE IF ~r.pdfOk THEN ExceptClause([type |-> "PdfReadError", status |-> 0])
    ELSE [Response(200, TRUE) EXCEPT
            !.items = [name \in { n \in FieldNames(r.doc) : HasTypeTag(r.doc, n) } |->
                          DumpItem(r.doc, name)]]

-----------------------------------------------------------------------------
(* Inputs *)

\* sequences over S of length at most n
SeqsUpTo(S, n) == UNION { [1..k -> S] : k \in 0..n }

One   == <<"/","1">>
Two   == <<"/","2">>
OffUp == <<"/","O","F","F">>

Node(T, Parent, FT, Kids, States, AP, P, Rect, V) ==
    [T |-> T, Parent |-> Parent, FT |-> FT, Kids |-> Kids, States |-> States,
     AP |-> AP, P |-> P, Rect |-> Rect, V |-> V, AS |-> V]

Box == [w |-> 612, h |-> 792]

Stream(i) == [kind |-> "stream", id |-> i]

Doc(nodes, pages) == [nodes |-> nodes, pages |-> pages, xfa |-> FALSE, needAp |-> FALSE]

\* a button field on its own: its /_States_, and the /AP keys of its widgets
StatePool == { One, OffName, OffUp, <<"O","f","f">>, <<"2">> }

APChoices == { <<>>, << <<>> >>, << <<OffName, One>> >>, << <<Two, OffName>> >>,
               << <<OffLow, <<"1">>, One>> >> }

FieldDoc(states, aps, ownAP) ==
    Doc(<<Node(<< <<"f">> >>, 0, <<BtnTag>>, [i \in 1..Len(aps) |-> i + 1], states,
               ownAP, <<>>, <<>>, <<>>)>>
        \o [i \in 1..Len(aps) |-> Node(<<>>, 1, <<>>, <<>>, <<>>, aps[i], <<>>, <<>>, <<>>)],
        <<>>)

FieldDocs ==
    { FieldDoc(st, <<>>, ap) : st \in SeqsUpTo(StatePool, MaxStates), ap \in APChoices }
    \cup { FieldDoc(st, aps, <<>>) : st \in SeqsUpTo(StatePool, MaxStates),
                                     aps \in SeqsUpTo(APChoices, MaxKids) \ {<<>>} }

\* caller values
CaseVariants(w) ==
    { s \in [1..Len(w) -> { LowerChar(w[j]) : j \in 1..Len(w) } \cup { UpperChar(w[j]) : j \in 1..Len(w) }] :
        \A i \in 1..Len(w) : s[i] \in {LowerChar(w[i]), UpperChar(w[i])} }

Alphabet == { "/", "o", "N", " ", "1", "x" }

Str(s) == [k |-> "str", s |-> s]

NamedStrings ==
    { <<" ","o","n"," ">>, <<"Y","e","s","\n">>, <<"\t","O","F","F">>, OffName, OffLow,
      <<"/","o","n">>, <<"/","C","u","s","t","o","m","S","t","a","t","e">>,
      <<"C","u","s","t","o","m">>, <<" ","x"," ","y"," ">>, <<"/","1"," ">>,
      <<"/","/","x">>, <<"t","r","u","e","x">> }

StringValues ==
    { Str(s) : s \in SeqsUpTo(Alphabet, MaxStrLen) \cup NamedStrings
                     \cup UNION { CaseVariants(w) : w \in TrueWords \cup FalseWords } }

Values ==
    { [k |-> "bool", b |-> b] : b \in BOOLEAN }
    \cup { [k |-> "int", n |-> n] : n \in {-1, 0, 1, 2, 10} }
    \cup { [k |-> "null"] }
    \cup StringValues

NormFields ==
    { FieldDoc(<<>>, <<>>, <<>>), FieldDoc(<<One, OffName>>, <<>>, <<>>),
      FieldDoc(<<OffName, <<"2">>>>, <<>>, <<>>), FieldDoc(<<OffUp>>, <<>>, <<>>),
      FieldDoc(<<>>, << << <<OffLow, <<"1">>, One>> >> >>, <<>>),
      FieldDoc(<<>>, <<>>, << <<Two, OffName>> >>),
      FieldDoc(<< <<"/","1"," ">>, OffName >>, <<>>, <<>>),
      FieldDoc(<< <<"o","n">> >>, <<>>, <<>>) }

\* a field and the pages of its widgets
PageDict(i) == [box |-> Box, Annots |-> <<>>, content |-> <<Stream(i)>>]

PagesDoc(pages, prefs, ownP) ==
    [Doc(<<Node(<< <<"f">> >>, 0, <<TxTag>>, [i \in 1..Len(prefs) |-> i + 1], <<>>,
               <<>>, ownP, <<>>, <<>>)>>
        \o [i \in 1..Len(prefs) |-> Node(<<>>, 1, <<>>, <<>>, <<>>, <<>>, prefs[i], <<>>, <<>>)],
        <<>>) EXCEPT !.pages = pages]

PRefs == { <<>> } \cup { <<r>> : r \in 1..(MaxPages + 1) }

PagesDocs ==
    { PagesDoc(pages, <<>>, p) : pages \in SeqsUpTo({PageDict(1), PageDict(2)}, MaxPages),
                                 p \in PRefs }
    \cup { PagesDoc(pages, prefs, <<>>) :
              pages \in SeqsUpTo({PageDict(1), PageDict(2)}, MaxPages),
              prefs \in SeqsUpTo(PRefs, MaxKids) \ {<<>>} }

\* a form: a radio group "g" with nk kids, a check box "c", a text field "t"
\* and, when deep, a button "h" whose widget hangs under the untyped node "h.m"
NameG  == <<"g">>
NameC  == <<"c">>
NameT  == <<"t">>
NameHM == <<"h",".","m">>
NameZZ == <<"z","z">>

PageOfKid(i, np) == ((i - 1) % np) + 1

FormNodes(nk, np, gs, kap, cs, cap, crect, deep) ==
    <<Node(<<NameG>>, 0, <<BtnTag>>, [i \in 1..nk |-> i + 1], gs, <<>>, <<>>, <<>>, <<OffName>>)>>
    \o [i \in 1..nk |->
          Node(<<>>, 1, <<>>, <<>>, <<>>, kap, <<PageOfKid(i, np)>>,
               << <<20 * i, 100, 20 * i + 12, 110>> >>, <<OffName>>)]
    \o <<Node(<<NameC>>, 0, <<BtnTag>>, <<>>, cs, cap, <<1>>,
              IF crect THEN << <<300, 500, 310, 520>> >> ELSE <<>>, <<OffName>>),
         Node(<<NameT>>, 0, <<TxTag>>, <<>>, <<>>, <<>>, <<np>>,
              << <<50, 600, 250, 620>> >>, << <<"o","l","d">> >>)>>
    \o (IF deep
        THEN <<Node(<< <<"h">> >>, 0, <<BtnTag>>, <<nk + 5>>, <<One, OffName>>, <<>>, <<>>, <<>>, <<OffName>>),
               Node(<< <<"m">> >>, nk + 4, <<>>, <<nk + 6>>, <<>>, <<>>, <<>>, <<>>, <<>>),
               Node(<<>>, nk + 5, <<>>, <<>>, <<>>, << <<One, OffName>> >>, <<1>>,
                    << <<400, 50, 410, 60>> >>, <<OffName>>)>>
        ELSE <<>>)

IsWidgetOn(nodes, n, p) == nodes[n].Kids = <<>> /\ nodes[n].P = <<p>>

FormPages(nodes, np) ==
    [p \in 1..np |->
        [box |-> Box,
         Annots |-> LET On(n) == IsWidgetOn(nodes, n, p)
                    IN SelectSeq([n \in 1..Len(nodes) |-> n], On),
         content |-> <<Stream(p)>>]]

FormDoc(nk, np, gs, kap, cs, cap, crect, deep, xfa) ==
    LET nodes == FormNodes(nk, np, gs, kap, cs, cap, crect, deep)
    IN [nodes |-> nodes, pages |-> FormPages(nodes, np), xfa |-> xfa, needAp |-> FALSE]

CheckStyles == { <<1, <<>>, <<>> >>, <<2, <<One, OffName>>, << <<One, OffName>> >> >>,
                 <<3, <<OffName>>, << <<OffName>> >> >> }

FillDocs ==
    { FormDoc(nk, np, gs, kap, cs[2], cs[3], crect, FALSE, crect) :
        nk \in 1..MaxKids, np \in 1..MaxPages, gs \in { <<>>, <<One, OffName>> },
        kap \in { <<>>, << <<Two, OffName>> >> }, cs \in CheckStyles,
        crect \in BOOLEAN }

ApplyDocs ==
    { FormDoc(nk, np, <<One, OffName>>, << <<One, OffName>> >>, <<One, OffName>>,
              << <<One, OffName>> >>, crect, deep, FALSE) :
        nk \in 1..MaxKids, np \in 1..MaxPages, crect \in BOOLEAN, deep \in BOOLEAN }

\* a dictionary from the optional entries given for each key
DictOf(keys, opts) ==
    [name \in { keys[i] : i \in { j \in 1..Len(keys) : opts[j] # <<>> } } |->
        opts[CHOOSE i \in 1..Len(keys) : keys[i] = name][1]]

TrueV  == [k |-> "bool", b |-> TRUE]
FalseV == [k |-> "bool", b |-> FALSE]

Forms ==
    { DictOf(<<NameG, NameC, NameT, NameZZ>>, <<g, c, t, z>>) :
        g \in { <<>>, <<TrueV>>, <<Str(Two)>>, <<Str(OffLow)>> },
        c \in { <<>>, <<FalseV>>, <<Str(<<"Y","e","s">>)>>, <<Str(<<"C","u","s","t","o","m">>)>>,
                <<[k |-> "int", n |-> 1]>> },
        t \in { <<>>, <<Str(<<"h","i">>)>> },
        z \in { <<>>, <<TrueV>> } }

BtnMaps ==
    { DictOf(<<NameG, NameC, NameHM, NameT, NameZZ>>, <<g, c, h, t, z>>) :
        g \in { <<>>, <<One>>, <<OffName>>, <<OffLow>>, <<Two>> },
        c \in { <<>>, <<One>>, <<OffName>>, <<OffUp>>, <<YesName>> },
        h \in { <<>>, <<One>> },
        t \in { <<>>, <<One>> },
        z \in { <<>>, <<One>> } }

\* text-overlay instructions
Overlay(page) ==
    [page |-> page, x |-> 100, y |-> 700, text |-> <<"H","e","l","l","o">>,
     fontSize |-> IF page = <<>> THEN <<>> ELSE <<10>>, bold |-> page = <<1>>]

OverlayPool == { Overlay(pg) : pg \in { <<>> } \cup { <<n>> : n \in 0..(MaxPages + 1) } }

OverlayInputs ==
    { [k |-> "none", l |-> <<>>], [k |-> "other", l |-> <<>>] }
    \cup { [k |-> "list", l |-> l] : l \in SeqsUpTo(OverlayPool, MaxOverlays) }

PlainDoc(np, xfa) ==
    FormDoc(1, np, <<One, OffName>>, << <<One, OffName>> >>, <<>>, <<>>, TRUE, FALSE, xfa)

\* a PDF without form fields
BareDoc(np) == [nodes |-> <<>>, pages |-> [p \in 1..np |-> PageDict(p)], xfa |-> FALSE, needAp |-> FALSE]

-----------------------------------------------------------------------------
(* Requests *)

BaseReq ==
    [op |-> "", fileType |-> PdfType, dataType |-> JsonType, pdfOk |-> TRUE,
     json |-> "object", form |-> NoDict, overlays |-> [k |-> "none", l |-> <<>>],
     doc |-> NoDoc, f |-> 0, v |-> [k |-> "null"], btn |-> NoDict, text |-> <<>>]

ContentTypes == { PdfType, JsonType, "text/plain" }

FormG == DictOf(<<NameG>>, << <<TrueV>> >>)

HandlerDocs == FillDocs \cup { BareDoc(np) : np \in 0..MaxPages }

HelperRequest ==
    \/ \E d \in FieldDocs : req = [BaseReq EXCEPT !.op = "field", !.doc = d, !.f = 1]
    \/ \E d \in NormFields, v \in Values :
          req = [BaseReq EXCEPT !.op = "normalize", !.doc = d, !.f = 1, !.v = v]
    \/ \E d \in PagesDocs : req = [BaseReq EXCEPT !.op = "pages", !.doc = d, !.f = 1]
    \/ \E d \in ApplyDocs, b \in BtnMaps :
          req = [BaseReq EXCEPT !.op = "apply", !.doc = d, !.btn = b]

FillRequest ==
    \/ \E d \in FillDocs, fm \in Forms :
          req = [BaseReq EXCEPT !.op = "fill_form", !.doc = d, !.form = fm]
    \/ \E ft \in ContentTypes, dt \in ContentTypes, ok \in BOOLEAN,
          js \in {"object", "array", "invalid"} :
          req = [BaseReq EXCEPT !.op = "fill_form", !.doc = PlainDoc(1, TRUE), !.form = FormG,
                                !.fileType = ft, !.dataType = dt, !.pdfOk = ok, !.json = js]
    \/ \E np \in 1..MaxPages, ov \in OverlayInputs :
          req = [BaseReq EXCEPT !.op = "fill_form", !.doc = PlainDoc(np, FALSE),
                                !.form = FormG, !.overlays = ov]

UploadRequest ==
    \E op \in {"visual_mapper", "stamp_header", "dump_fields"}, d \in HandlerDocs,
       ft \in {PdfType, "text/plain"}, ok \in BOOLEAN :
       req = [BaseReq EXCEPT !.op = op, !.doc = d, !.fileType = ft, !.pdfOk = ok,
                             !.text = <<"D","E">>]

-----
(* The state machine: a request arrives, one handler (or one helper called *)
(* on its own) answers it.  Nothing is kept between requests.              *)

Init ==
    /\ pc = "request"
    /\ (HelperRequest \/ FillRequest \/ UploadRequest)
    /\ res = Response(0, FALSE)

Answer(r) ==
    /\ pc = "request"
    /\ pc' = "done"
    /\ res' = r
    /\ UNCHANGED req

ButtonStatesCall ==
    /\ req.op = "field"
    /\ Answer([Response(0, FALSE) EXCEPT !.value = <<"states", _button_states(req.doc.nodes, req.f)>>])

OnValueCall ==
    /\ req.op = "field"
    /\ Answer([Response(0, FALSE) EXCEPT !.value = <<"on", _on_value(req.doc.nodes, req.f)>>])

NormalizeCall ==
    /\ req.op = "normalize"
    /\ Answer([Response(0, FALSE) EXCEPT
                 !.value = <<"norm", _normalize_checkbox_value(req.v, req.doc.nodes, req.f)>>])

PagesOfFieldCall ==
    /\ req.op = "pages"
    /\ Answer([Response(0, FALSE) EXCEPT !.value = <<"pages", _pages_of_field(req.doc, req.f)>>])

ApplyCheckboxCall ==
    /\ req.op = "apply"
    /\ LET ap == _apply_checkbox_appearances(req.doc, req.btn)
       IN Answer([Response(0, FALSE) EXCEPT !.doc = ap.doc, !.checked = ap.checked,
                                            !.btn_map = req.btn])

FillForm     == req.op = "fill_form" /\ Answer(fill_form(req))
VisualMapper == req.op = "visual_mapper" /\ Answer(visual_mapper(req))
StampHeader  == req.op = "stamp_header" /\ Answer(stamp_header(req))
DumpFields   == req.op = "dump_fields" /\ Answer(dump_fields(req))

Next ==
    \/ ButtonStatesCall
    \/ OnValueCall
    \/ NormalizeCall
    \/ PagesOfFieldCall
    \/ ApplyCheckboxCall
    \/ FillForm
    \/ VisualMapper
    \/ StampHeader
    \/ DumpFields

Spec == Init /\ [][Next]_vars

TypeOK == pc \in {"request", "walk", "parent", "done"}

-----------------------------------------------------------------------------
(* Properties *)

Done(op)   == pc = "done" /\ req.op = op
Called(fn) == pc = "done" /\ res.value # <<>> /\ res.value[1] = fn
Result     == res.value[2]

IsOffVariant(s) == Lower(s) = OffLow

\* C3: _on_value returns the first entry of the legal-state list that is not
\* "/Off" under case-insensitive comparison, and "/Yes" when the list is empty
\* or holds only "/Off" variants.
C3_OnValueFirstNonOff ==
    Called("on") =>
        LET st == _button_states(req.doc.nodes, req.f)
        IN IF \E i \in 1..Len(st) : ~IsOffVariant(st[i])
           THEN \E i \in 1..Len(st) :
                   /\ ~IsOffVariant(st[i])
                   /\ \A j \in 1..(i - 1) : IsOffVariant(st[j])
                   /\ Result = st[i]
           ELSE Result = YesName

C3_Witness ==
    /\ Called("on")
    /\ req.doc.nodes[req.f].States = <<OffUp, <<"2">>>>
    /\ Result = Two

C3_WitnessFallback ==
    /\ Called("on")
    /\ req.doc.nodes[req.f].States = <<OffUp, <<"O","f","f">>>>
    /\ Result = YesName

\* C4: True and every case variant of true/1/yes/y/on normalize to
\* _on_value(field); False and every case variant of false/0/no/n/off
\* normalize to "/Off"; whatever states the field declares.
C4_KeywordsNormalize ==
    Called("norm") =>
        /\ ((req.v.k = "bool" /\ req.v.b) \/ (req.v.k = "str" /\ Lower(req.v.s) \in TrueWords))
              => Result = _on_value(req.doc.nodes, req.f)
        /\ ((req.v.k = "bool" /\ ~req.v.b) \/ (req.v.k = "str" /\ Lower(req.v.s) \in FalseWords))
              => Result = OffName

C4_Witness ==
    /\ Called("norm")
    /\ req.v = Str(<<"Y","e","s">>)
    /\ req.doc.nodes[req.f].States = <<OffName, <<"2">>>>
    /\ Result = Two

\* C5, as stated: a string that is not a boolean keyword comes back with one
\* leading slash ensured and otherwise unchanged; every result begins with "/";
\* normalizing a result again returns it unchanged, for every value and field.
C5_PassThroughUnchanged ==
    Called("norm") =>
        /\ (req.v.k = "str" /\ Lower(req.v.s) \notin TrueWords \cup FalseWords)
              => Result = EnsureSlash(req.v.s)
        /\ StartsWithSlash(Result)
        /\ _normalize_checkbox_value(Str(Result), req.doc.nodes, req.f) = Result

\* C5, amended: a string whose stripped, lower-cased form is not a boolean
\* keyword comes back stripped of surrounding whitespace with one leading slash
\* ensured, and is stable under a second normalization; every result begins
\* with "/"; a result that carries no surrounding whitespace is a fixed point.
C5_PassThroughStripped ==
    Called("norm") =>
        /\ (req.v.k = "str" /\ Lower(Strip(req.v.s)) \notin TrueWords \cup FalseWords)
              => /\ Result = EnsureSlash(Strip(req.v.s))
                 /\ _normalize_checkbox_value(Str(Result), req.doc.nodes, req.f) = Result
        /\ StartsWithSlash(Result)
        /\ Strip(Result) = Result
              => _normalize_checkbox_value(Str(Result), req.doc.nodes, req.f) = Result

C5_Witness ==
    /\ Called("norm")
    /\ req.v = Str(<<" ","x"," ","y"," ">>)
    /\ req.doc.nodes[req.f].States = <<One, OffName>>
    /\ Result = <<"/","x"," ","y">>

\* C8: _pages_of_field returns 1-based page numbers without duplicates, in
\* order of first occurrence over the field's widgets, each the index of the
\* first page equal to the widget's page; a widget without a page reference,
\* or with one that matches no page, contributes nothing.
PageNoOf(doc, w) ==
    LET pref == doc.nodes[w].P
    IN IF pref = <<>> \/ pref[1] \notin 1..Len(doc.pages) THEN 0
       ELSE CHOOSE i \in 1..Len(doc.pages) :
               /\ doc.pages[i] = doc.pages[pref[1]]
               /\ \A j \in 1..(i - 1) : doc.pages[j] # doc.pages[pref[1]]

C8_PagesOfField ==
    Called("pages") =>
        LET ws == IF req.doc.nodes[req.f].Kids = <<>> THEN <<req.f>>
                  ELSE req.doc.nodes[req.f].Kids
            FirstWidget(n) == CHOOSE k \in 1..Len(ws) :
                                 /\ PageNoOf(req.doc, ws[k]) = n
                                 /\ \A j \in 1..(k - 1) : PageNoOf(req.doc, ws[j]) # n
        IN /\ \A i, j \in 1..Len(Result) : i # j => Result[i] # Result[j]
           /\ { Result[i] : i \in 1..Len(Result) }
                 = { PageNoOf(req.doc, ws[k]) : k \in 1..Len(ws) } \ {0}
           /\ \A i, j \in 1..Len(Result) : i < j => FirstWidget(Result[i]) < FirstWidget(Result[j])

\* two widgets on the same page, reported once; the page they name is the
\* second of two equal pages, reported as the first
C8_Witness ==
    /\ Called("pages")
    /\ Len(req.doc.nodes[req.f].Kids) >= 2
    /\ req.doc.pages = <<PageDict(1), PageDict(1)>>
    /\ req.doc.nodes[2].P = <<2>> /\ req.doc.nodes[3].P = <<2>>
    /\ Result = <<1>>

\* C10, as stated: with a non-empty /_States_ list the result is exactly its
\* entries, slash-prefixed, in order; the /AP keys of the widgets are used, in
\* first-seen order without repeats, only when no such list is present.
C10_DeclaredListPreferred ==
    Called("states") =>
        LET decl == req.doc.nodes[req.f].States
        IN decl # <<>> => Result = [i \in 1..Len(decl) |-> EnsureSlash(decl[i])]

\* the widget annotations the pages list, as pairs <<page number, object id>>
Widgets(doc) ==
    UNION { { <<p, doc.pages[p].Annots[k]>> : k \in 1..Len(doc.pages[p].Annots) } :
              p \in 1..Len(doc.pages) }

\* a widget the synchronizer treats as a button: /FT of the node, else of its parent
ButtonWidget(doc, a) ==
    \/ doc.nodes[a].FT = <<BtnTag>>
    \/ doc.nodes[a].FT = <<>> /\ doc.nodes[a].Parent # 0
         /\ doc.nodes[doc.nodes[a].Parent].FT = <<BtnTag>>

\* the widgets of the request's document that are buttons named in the dictionary d
Mapped(d) ==
    { w \in Widgets(req.doc) :
        ButtonWidget(req.doc, w[2]) /\ _build_full_name(req.doc.nodes, w[2]) \in DOMAIN d }

StateFor(d, w) == d[_build_full_name(req.doc.nodes, w[2])]

RectRecorded(w) ==
    /\ req.doc.nodes[w[2]].Rect # <<>>
    /\ InList(req.doc.nodes[w[2]].Rect[1], res.checked[w[1] - 1])

\* C9, as stated: after _apply_checkbox_appearances every widget of a button
\* field named in the mapping has /AS and /V equal to the mapped state, and its
\* rectangle is recorded for its page exactly when the state is not "/Off".
C9_AppliedAsStated ==
    Done("apply") =>
        \A w \in Mapped(req.btn) :
            /\ res.doc.nodes[w[2]].AS = <<StateFor(req.btn, w)>>
            /\ res.doc.nodes[w[2]].V = <<StateFor(req.btn, w)>>
            /\ req.doc.nodes[w[2]].Rect # <<>>
                  => (RectRecorded(w) <=> StateFor(req.btn, w) # OffName)

\* C9, amended: every widget annotation a page lists whose /FT (its own, else
\* its immediate parent's) is /Btn and whose full name is a key of the mapping
\* has its /AS and its own /V equal to the mapped state; its rectangle is
\* recorded for its zero-based page exactly when the state differs from "/Off"
\* ignoring case and the widget has a /Rect; nothing else is recorded.
C9_Applied ==
    Done("apply") =>
        /\ \A w \in Mapped(req.btn) :
            /\ res.doc.nodes[w[2]].AS = <<StateFor(req.btn, w)>>
            /\ res.doc.nodes[w[2]].V = <<StateFor(req.btn, w)>>
            /\ RectRecorded(w) <=> (~IsOffVariant(StateFor(req.btn, w))
                                     /\ req.doc.nodes[w[2]].Rect # <<>>)
        /\ \A p \in 1..Len(req.doc.pages) :
              Len(res.checked[p - 1])
                 = Cardinality({ w \in Mapped(req.btn) : w[1] = p /\ RectRecorded(w) })

\* scenarios A and B side by side: "g" set to "/1" with its rectangle recorded,
\* "c" set to "/OFF" with none
C9_Witness ==
    /\ Done("apply")
    /\ NameG \in DOMAIN req.btn /\ req.btn[NameG] = One
    /\ NameC \in DOMAIN req.btn /\ req.btn[NameC] = OffUp
    /\ res.doc.nodes[2].AS = <<One>> /\ res.doc.nodes[2].V = <<One>>
    /\ res.checked[0] = << req.doc.nodes[2].Rect[1] >>
    /\ \E n \in 1..Len(req.doc.nodes) :
          /\ req.doc.nodes[n].T = <<NameC>> /\ req.doc.nodes[n].Rect # <<>>
          /\ res.doc.nodes[n].AS = <<OffUp>>

Served(op) == Done(op) /\ res.status = 200

LegalStates(w) ==
    _button_states(req.doc.nodes, FieldOf(req.doc, _build_full_name(req.doc.nodes, w[2])))

OnlyOffVariants(st) == \A i \in 1..Len(st) : IsOffVariant(st[i])

\* C1, as stated: after fill_form and after visual_mapper every button widget
\* whose /AS was assigned holds a member of its field's legal-state list, or
\* "/Off", for every input value and for fields that declare no states.
C1_AssignedStateIsLegal ==
    (Served("fill_form") \/ Served("visual_mapper")) =>
        \A w \in Mapped(res.btn_map) :
            LET as == res.doc.nodes[w[2]].AS[1]
            IN InList(as, LegalStates(w)) \/ as = OffName

\* C1, amended: the assigned state begins with "/" and is a member of the
\* legal-state list, or "/Off", or "/Yes" when the list holds nothing but "/Off"
\* variants, or (fill_form only) the caller's non-keyword value, stripped, with
\* a leading slash ensured, which need not be a legal state.
C1_AssignedState ==
    (Served("fill_form") \/ Served("visual_mapper")) =>
        \A w \in Mapped(res.btn_map) :
            LET as == res.doc.nodes[w[2]].AS[1]
                st == LegalStates(w)
            IN /\ StartsWithSlash(as)
               /\ \/ InList(as, st)
                  \/ as = OffName
                  \/ as = YesName /\ OnlyOffVariants(st)
                  \/ /\ req.op = "fill_form"
                     /\ LET v == req.form[_build_full_name(req.doc.nodes, w[2])]
                        IN /\ v.k # "bool"
                           /\ Lower(Strip(PyStr(v))) \notin TrueWords \cup FalseWords
                           /\ as = EnsureSlash(Strip(PyStr(v)))

\* a check box without states filled with "Custom", and one forced on by visual_mapper
C1_Witness ==
    /\ Served("fill_form")
    /\ NameC \in DOMAIN req.form /\ req.form[NameC] = Str(<<"C","u","s","t","o","m">>)
    /\ \E w \in Mapped(res.btn_map) :
          /\ req.doc.nodes[w[2]].T = <<NameC>>
          /\ res.doc.nodes[w[2]].AS = << <<"/","C","u","s","t","o","m">> >>
          /\ ~InList(res.doc.nodes[w[2]].AS[1], LegalStates(w))

C1_WitnessVisual ==
    /\ Served("visual_mapper")
    /\ \E w \in Mapped(res.btn_map) :
          /\ LegalStates(w) = <<>>
          /\ res.doc.nodes[w[2]].AS = <<YesName>>

\* C2, as stated: fill_form answers every input-contract violation (file not
\* application/pdf, data not application/json, JSON body not an object) with
\* status 400, before the PDF is parsed.
ContractViolation ==
    \/ req.fileType # PdfType
    \/ req.dataType # JsonType
    \/ req.json = "array"

C2_ViolationsRejectedEarly ==
    (Done("fill_form") /\ ContractViolation) => (res.status = 400 /\ ~res.parsed)

\* C6: a key of the JSON mapping that names no field raises no error and adds
\* no entry to mapping or btn_map, and every field not named in the JSON
\* mapping keeps its /V and /AS.
WellFormed ==
    req.fileType = PdfType /\ req.dataType = JsonType /\ req.pdfOk /\ req.json = "object"

SamePages(in, out) ==
    /\ Len(out) = Len(in)
    /\ \A i \in 1..Len(in) :
          /\ out[i].box = in[i].box
          /\ out[i].Annots = in[i].Annots
          /\ Len(out[i].content) >= Len(in[i].content)
          /\ SubSeq(out[i].content, 1, Len(in[i].content)) = in[i].content

Canvases(page, kind) == { k \in 1..Len(page.content) : page.content[k].kind = kind }

C7_PagesPreserved ==
    /\ Served("stamp_header") =>
          /\ SamePages(req.doc.pages, res.doc.pages)
          /\ \A i \in 1..Len(res.doc.pages) :
                /\ Len(res.doc.pages[i].content) = Len(req.doc.pages[i].content) + 1
                /\ Cardinality(Canvases(res.doc.pages[i], "header")) = 1
    /\ (Done("apply") \/ Served("visual_mapper")) => SamePages(req.doc.pages, res.doc.pages)
    /\ Served("fill_form") =>
          /\ SamePages(req.doc.pages, res.doc.pages)
          /\ \A i \in 1..Len(res.doc.pages) :
                Canvases(res.doc.pages[i], "text") # {}
                   <=> \E k \in 1..Len(req.overlays.l) : OvPage(req.overlays.l[k]) = i

\* a two-page form filled with one instruction for page 0 and one for page 2
C7_Witness ==
    /\ Served("fill_form")
    /\ Len(req.doc.pages) = 2
    /\ req.overlays.k = "list" /\ Len(req.overlays.l) = 2
    /\ OvPage(req.overlays.l[1]) = 0 /\ OvPage(req.overlays.l[2]) = 2
    /\ Canvases(res.doc.pages[1], "text") = {}
    /\ Canvases(res.doc.pages[2], "text") # {}

C7_WitnessHeader ==
    /\ Served("stamp_header")
    /\ Len(res.doc.pages) = MaxPages
    /\ \A i \in 1..MaxPages : res.doc.pages[i].content[1] = Stream(i)

-----------------------------------------------------------------------------
(* _build_full_name, one loop iteration at a time.  The parent graph may be *)
(* any graph a PDF file can encode, cycles included: /Parent is an indirect *)
(* reference, and nothing makes the referenced objects form a tree.         *)
(* During the walk res.value is <<"walk", obj, parts>>.  parts is kept up   *)
(* to MaxParts names: on an acyclic graph of at most MaxNodes objects it    *)
(* never gets that long, and a longer list belongs to a walk that has       *)
(* already gone round a cycle.                                              *)
(***************************************************************************)

MaxParts == MaxNodes + 1

LocalNames == <<"a", "b", "c", "d", "e", "f">>

GraphNode(named, parent, i) ==
    Node(IF named THEN << <<LocalNames[i]>> >> ELSE <<>>, parent, <<>>, <<>>, <<>>,
         <<>>, <<>>, <<>>, <<>>)

ParentGraphs ==
    UNION { { [i \in 1..n |-> GraphNode(named[i], parent[i], i)] :
                named \in [1..n -> BOOLEAN], parent \in [1..n -> 0..n] } :
            n \in 1..MaxNodes }

WalkInit ==
    /\ pc = "walk"
    /\ \E g \in ParentGraphs : \E annot \in 1..Len(g) :
          /\ req = [BaseReq EXCEPT !.op = "full_name", !.doc = Doc(g, <<>>), !.f = annot]
          \* parts = []; obj = annot
          /\ res = [Response(0, FALSE) EXCEPT !.value = <<"walk", annot, <<>>>>]

WalkObj   == res.value[2]
WalkParts == res.value[3]

\* while obj:  t = obj.get("/T"); if t: parts.append(str(t))
WalkName ==
    /\ pc = "walk"
    /\ WalkObj # 0
    /\ pc' = "parent"
    /\ LET node == req.doc.nodes[WalkObj]
       IN res' = [res EXCEPT !.value[3] =
                     IF node.T # <<>> /\ node.T[1] # <<>> /\ Len(@) < MaxParts
                     THEN Append(@, node.T[1]) ELSE @]
    /\ UNCHANGED req

\* parent = obj.get("/Parent"); obj = parent.get_object() if parent else None
WalkParent ==
    /\ pc = "parent"
    /\ pc' = "walk"
    /\ res' = [res EXCEPT !.value[2] = req.doc.nodes[WalkObj].Parent]
    /\ UNCHANGED req

\* the loop is left: parts.reverse(); return ".".join(parts)
WalkReturn ==
    /\ pc = "walk"
    /\ WalkObj = 0
    /\ pc' = "done"
    /\ res' = [res EXCEPT !.value = <<"name", JoinDot(Reverse(WalkParts))>>]
    /\ UNCHANGED req

WalkNext == WalkName \/ WalkParent \/ WalkReturn

\* the interpreter keeps running the loop: a step that can be taken is taken
WalkSpec == WalkInit /\ [][WalkNext]_vars /\ WF_vars(WalkNext)

\* following /Parent from n at most k times reaches a node without /Parent
RECURSIVE ChainEnds(_, _, _)
ChainEnds(nodes, n, k) ==
    IF n = 0 THEN TRUE ELSE IF k = 0 THEN FALSE ELSE ChainEnds(nodes, nodes[n].Parent, k - 1)

\* the /Parent chain of the request's node reaches a node without /Parent
Acyclic == ChainEnds(req.doc.nodes, req.f, Len(req.doc.nodes))

\* C11, as stated: _build_full_name terminates for every annotation node, a
\* node of a document whose /Parent references form a cycle included.
C11_WalkTerminates == <>(pc = "done")

\* on an acyclic chain the walk returns the dot-joined local names from the
\* root down to the node, as the operator _build_full_name computes them
C11_AcyclicResult ==
    (Called("name") /\ Acyclic) => Result = _build_full_name(req.doc.nodes, req.f)

C11_AcyclicTerminates == Acyclic => <>(pc = "done")

====
